---- MODULE Spec2Model ----
(***************************************************************************)
(* The MARC record reader of audit/main.py: MARCReader.__next__ frames     *)
(* blocks off a binary file, Record.decode_marc turns one block into a     *)
(* leader and an ordered list of Fields.  Bytes and characters are the     *)
(* integers 0..255 (code points), byte strings and str are sequences.      *)
(***************************************************************************)
EXTENDS Integers, Sequences, FiniteSets, TLC

\* ------------------------------------------------------------ constants
LEADER_LENGTH == 24
DIRECTORY_ENTRY_LENGTH == 12
SUBFIELD_INDICATOR == 31
END_OF_FIELD == 30
END_OF_RECORD == 29
\* 'DB ' and 'SYS'
ALEPH_CONTROL_FIELDS == { <<68, 66, 32>>, <<83, 89, 83>> }

\* ------------------------------------------------- Python primitives
Min(a, b) == IF a < b THEN a ELSE b
Max(a, b) == IF a > b THEN a ELSE b

\* s[a:b] on a sequence (0-based, negative indices count from the end,
\* both ends clamped, empty when the range is empty).
PySlice(s, a, b) ==
    LET n  == Len(s)
        lo == IF a < 0 THEN Max(a + n, 0) ELSE Min(a, n)
        hi == IF b < 0 THEN Max(b + n, 0) ELSE Min(b, n)
    IN  IF lo < hi THEN SubSeq(s, lo + 1, hi) ELSE <<>>

\* The characters int() strips from both ends: \t \n \v \f \r and space.
PyWhitespace == {9, 10, 11, 12, 13, 32}
IsDigit(c) == c \in 48..57

RECURSIVE LStrip(_)
LStrip(s) == IF s # <<>> /\ s[1] \in PyWhitespace THEN LStrip(Tail(s)) ELSE s

RECURSIVE RStrip(_)
RStrip(s) ==
    IF s # <<>> /\ s[Len(s)] \in PyWhitespace
    THEN RStrip(SubSeq(s, 1, Len(s) - 1)) ELSE s

\* Decimal digits with single underscores allowed between two digits.
DigitsValid(s) ==
    /\ s # <<>>
    /\ IsDigit(s[1])
    /\ IsDigit(s[Len(s)])
    /\ \A i \in 1..Len(s) : IsDigit(s[i]) \/ s[i] = 95
    /\ \A i \in 1..(Len(s) - 1) : ~(s[i] = 95 /\ s[i + 1] = 95)

RECURSIVE DigitsValue(_, _)
DigitsValue(s, acc) ==
    IF s = <<>> THEN acc
    ELSE IF s[1] = 95 THEN DigitsValue(Tail(s), acc)
    ELSE DigitsValue(Tail(s), acc * 10 + (s[1] - 48))

\* int(x) for a bytes or an ASCII str x: ok is FALSE where int() raises
\* ValueError.
PyInt(s) ==
    LET t      == RStrip(LStrip(s))
        signed == t # <<>> /\ t[1] \in {43, 45}
        body   == IF signed THEN Tail(t) ELSE t
        neg    == signed /\ t[1] = 45
    IN  IF DigitsValid(body)
        THEN [ok |-> TRUE,
              val |-> IF neg THEN 0 - DigitsValue(body, 0) ELSE DigitsValue(body, 0)]
        ELSE [ok |-> FALSE, val |-> 0]

\* bytes.decode('ascii'): fails on any byte above 127.
AsciiOk(b) == \A i \in 1..Len(b) : b[i] < 128

IsCont(c) == c \in 128..191

\* bytes.decode('utf-8', 'strict') continued after the code points acc:
\* all the code points, or ok = FALSE.
RECURSIVE Utf8From(_, _)
Utf8From(b, acc) ==
    IF b = <<>> THEN [ok |-> TRUE, chars |-> acc]
    ELSE
      LET c == b[1]
          n == IF c < 128 THEN 1
               ELSE IF c \in 194..223 /\ Len(b) >= 2 /\ IsCont(b[2]) THEN 2
               ELSE IF /\ c \in 224..239 /\ Len(b) >= 3
                       /\ IsCont(b[2]) /\ IsCont(b[3])
                       /\ (c = 224 => b[2] >= 160)
                       /\ (c = 237 => b[2] <= 159) THEN 3
               ELSE IF /\ c \in 240..244 /\ Len(b) >= 4
                       /\ IsCont(b[2]) /\ IsCont(b[3]) /\ IsCont(b[4])
                       /\ (c = 240 => b[2] >= 144)
                       /\ (c = 244 => b[2] <= 143) THEN 4
               ELSE 0
          cp == IF n = 1 THEN c
                ELSE IF n = 2 THEN (c - 192) * 64 + (b[2] - 128)
                ELSE IF n = 3 THEN (c - 224) * 4096 + (b[2] - 128) * 64 + (b[3] - 128)
                ELSE IF n = 4 THEN (c - 240) * 262144 + (b[2] - 128) * 4096
                                   + (b[3] - 128) * 64 + (b[4] - 128)
                ELSE 0
      IN  IF n = 0 THEN [ok |-> FALSE, chars |-> <<>>]
          ELSE Utf8From(SubSeq(b, n + 1, Len(b)), Append(acc, cp))

Utf8Decode(b) == Utf8From(b, <<>>)

\* bytes.split(sep) for a one-byte separator: always at least one chunk.
RECURSIVE Split(_, _)
Split(b, sep) ==
    IF \A i \in 1..Len(b) : b[i] # sep THEN <<b>>
    ELSE LET k == CHOOSE i \in 1..Len(b) :
                      b[i] = sep /\ \A j \in 1..(i - 1) : b[j] # sep
         IN  <<SubSeq(b, 1, k - 1)>> \o Split(SubSeq(b, k + 1, Len(b)), sep)

\* str < str: lexicographic on code points.
RECURSIVE StrLess(_, _)
StrLess(a, b) ==
    IF b = <<>> THEN FALSE
    ELSE IF a = <<>> THEN TRUE
    ELSE IF a[1] # b[1] THEN a[1] < b[1]
    ELSE StrLess(Tail(a), Tail(b))

\* str.isdigit() on ASCII text.
StrIsDigit(s) == s # <<>> /\ \A i \in 1..Len(s) : IsDigit(s[i])

\* '%03s' % tag: right-justified in a width of 3, padded with spaces.
RECURSIVE PadTag(_)
PadTag(tag) == IF Len(tag) >= 3 THEN tag ELSE PadTag(<<32>> \o tag)

\* ------------------------------------------------------------- Field
\* Field.is_control_field, and the same test as written in decode_marc
\* and in Field.__init__.
IsControlTagLexical(tag) ==
    \/ StrLess(tag, <<48, 49, 48>>)
    \/ tag \in ALEPH_CONTROL_FIELDS
IsControlTag(tag) ==
    \/ StrLess(tag, <<48, 49, 48>>) /\ StrIsDigit(tag)
    \/ tag \in ALEPH_CONTROL_FIELDS

\* Field.__init__: attrs is the set of attributes the constructor sets
\* besides tag (hasattr(field, a) is a \in attrs).
FieldInit(tag, indicators, subfields, data) ==
    LET t == PadTag(tag)
    IN  IF IsControlTag(t)
        THEN [tag |-> t, attrs |-> {"data"}, data |-> data,
              indicators |-> <<>>, subfields |-> <<>>]
        ELSE [tag |-> t, attrs |-> {"indicators", "subfields"}, data |-> <<>>,
              indicators |-> indicators, subfields |-> subfields]

\* Field.is_control_field
is_control_field(field) == IsControlTag(field.tag)

\* Field.__iter__: the value it assigns to the cursor __pos, whatever the
\* cursor was (position -1 stands for a cursor not yet assigned).
FieldIterResume(position) == Max(position, 0)
FieldIter(position) == 0

\* Field.__next__ with the cursor at position: stop is StopIteration,
\* otherwise pair is the (code, value) returned; position is the cursor
\* afterwards.
FieldNext(field, position) ==
    IF "subfields" \notin field.attrs
    THEN [stop |-> TRUE, pair |-> <<>>, position |-> position]
    ELSE IF position < Len(field.subfields)
    THEN [stop |-> FALSE,
          pair |-> <<field.subfields[position + 1], field.subfields[position + 2]>>,
          position |-> position + 2]
    ELSE [stop |-> TRUE, pair |-> <<>>, position |-> position]

\* The test of get_subfields on the code of a pair.
CodeSelectedListed(codes, code) == \E k \in 1..Len(codes) : codes[k] = code
CodeSelected(codes, code) ==
    Len(codes) = 0 \/ \E k \in 1..Len(codes) : codes[k] = code

\* The for loop of get_subfields from the cursor __iter__ has set, values
\* being the list so far: the list returned and the cursor left behind.
RECURSIVE GetSubfieldsLoop(_, _, _, _)
GetSubfieldsLoop(field, position, codes, values) ==
    LET n == FieldNext(field, position)
    IN  IF n.stop THEN [values |-> values, position |-> n.position]
        ELSE GetSubfieldsLoop(field, n.position, codes,
                 IF CodeSelected(codes, n.pair[1])
                 THEN Append(values, n.pair[2]) ELSE values)

\* Field.get_subfields(*codes) on a field whose cursor is at position.
get_subfields(field, position, codes) ==
    GetSubfieldsLoop(field, FieldIter(position), codes, <<>>)

RECURSIVE DecodeSubfieldsKeepEmpty(_, _)
DecodeSubfieldsKeepEmpty(chunks, subfields) ==
    IF chunks = <<>> THEN [ok |-> TRUE, subfields |-> subfields]
    ELSE DecodeSubfieldsKeepEmpty(Tail(chunks),
             subfields \o <<PySlice(chunks[1], 0, 1),
                            Utf8Decode(PySlice(chunks[1], 1, Len(chunks[1]))).chars>>)

\* The loop over subs[1:] of decode_marc, subfields being the flat code,
\* value list so far.
RECURSIVE DecodeSubfields(_, _)
DecodeSubfields(chunks, subfields) ==
    IF chunks = <<>> THEN [ok |-> TRUE, subfields |-> subfields]
    ELSE IF Len(chunks[1]) = 0 THEN DecodeSubfields(Tail(chunks), subfields)
    ELSE
      LET subfield == chunks[1]
          code == PySlice(subfield, 0, 1)
          data == Utf8Decode(PySlice(subfield, 1, Len(subfield)))
      IN  IF ~AsciiOk(code) \/ ~data.ok THEN [ok |-> FALSE, subfields |-> <<>>]
          ELSE DecodeSubfields(Tail(chunks), subfields \o <<code, data.chars>>)

\* The data sliced for a directory entry.
EntryData(marc, base_address, entry_offset, entry_length) ==
    PySlice(marc, base_address + entry_offset,
            base_address + entry_offset + entry_length - 1)

\* One pass of the while loop of decode_marc: the Field of one 12-character
\* directory entry, or the exception it raises.
DecodeField(marc, base_address, entry) ==
    LET entry_tag    == PySlice(entry, 0, 3)
        entry_length == PyInt(PySlice(entry, 3, 7))
        entry_offset == PyInt(PySlice(entry, 7, 12))
        entry_data   == EntryData(marc, base_address, entry_offset.val, entry_length.val)
    IN  IF ~entry_length.ok \/ ~entry_offset.ok
        THEN [kind |-> "ValueError", field |-> <<>>]
        ELSE IF IsControlTag(entry_tag)
        THEN LET d == Utf8Decode(entry_data)
             IN  IF d.ok
                 THEN [kind |-> "ok", field |-> FieldInit(entry_tag, <<>>, <<>>, d.chars)]
                 ELSE [kind |-> "UnicodeDecodeError", field |-> <<>>]
        ELSE LET subs  == Split(entry_data, SUBFIELD_INDICATOR)
                 subs0 == subs[1] \o <<32, 32>>
                 sf    == DecodeSubfields(Tail(subs), <<>>)
             IN  IF ~AsciiOk(subs[1]) \/ ~sf.ok
                 THEN [kind |-> "UnicodeDecodeError", field |-> <<>>]
                 ELSE [kind |-> "ok",
                       field |-> FieldInit(entry_tag, <<subs0[1], subs0[2]>>,
                                           sf.subfields, <<>>)]

\* The while loop of decode_marc from field_count on, fields being
\* self.fields so far: the fields in the end, or the first exception.
RECURSIVE DecodeFields(_, _, _, _, _)
DecodeFields(marc, base_address, directory, field_count, fields) ==
    IF ~(field_count < Len(directory) \div DIRECTORY_ENTRY_LENGTH)
    THEN [kind |-> "ok", fields |-> fields]
    ELSE
      LET entry_start == field_count * DIRECTORY_ENTRY_LENGTH
          entry_end   == entry_start + DIRECTORY_ENTRY_LENGTH
          f == DecodeField(marc, base_address, PySlice(directory, entry_start, entry_end))
      IN  IF f.kind # "ok" THEN [kind |-> f.kind, fields |-> <<>>]
          ELSE DecodeFields(marc, base_address, directory, field_count + 1,
                            Append(fields, f.field))

\* ------------------------------------------------------------ Record
\* Record.__init__: the leader argument with positions 10-11 and 20-23
\* overwritten.
InitLeader(leader) ==
    PySlice(leader, 0, 10) \o <<50, 50>> \o PySlice(leader, 12, 20) \o <<52, 53, 48, 48>>

DefaultLeader == [i \in 1..LEADER_LENGTH |-> 32]

\* self.leader after the try statement of decode_marc: the decoded bytes, or,
\* when decoding raised and the except clause printed, what __init__ left.
DecodedLeaderNormalized(raw, init) == IF AsciiOk(raw) THEN InitLeader(raw) ELSE init
DecodedLeader(raw, init) == IF AsciiOk(raw) THEN raw ELSE init

LeaderBadOver(leader) == Len(leader) > LEADER_LENGTH
LeaderBad(leader) == Len(leader) # LEADER_LENGTH
BaseAddressBad(base_address) == base_address <= 0
BaseAddressBeyond(base_address, marc) == base_address > Len(marc)
BaseAddressTooLong(base_address, marc) == base_address >= Len(marc)
DirectoryRegion(marc, base_address) == PySlice(marc, LEADER_LENGTH, base_address - 1)
DirectoryBad(directory) == Len(directory) % DIRECTORY_ENTRY_LENGTH # 0
NoFieldsNever(field_count) == field_count < 0
NoFields(field_count) == field_count = 0

\* What a call of decode_marc leaves behind.  stage is the statement that
\* ended it; leader, base_address, directory and fields are the values those
\* names hold at that point (their defaults where not yet assigned).
Decoded(kind, stage, leader, base_address, directory, fields) ==
    [kind |-> kind, stage |-> stage, leader |-> leader,
     base_address |-> base_address, directory |-> directory, fields |-> fields]

\* Record(marc): __init__, followed by decode_marc(marc) unless marc is
\* empty.  main binds the global record_count before it creates the reader, so
\* the except clause of the leader's try statement prints and decoding goes on.
DecodeMarc(marc) ==
    LET init   == InitLeader(DefaultLeader)
        raw    == PySlice(marc, 0, LEADER_LENGTH)
        leader == DecodedLeader(raw, init)
        ba     == PyInt(PySlice(marc, 12, 17))
        base   == ba.val
        region == DirectoryRegion(marc, base)
        fs     == DecodeFields(marc, base, region, 0, <<>>)
    IN  IF Len(marc) = 0
        THEN Decoded("Record", "done", init, 0, <<>>, <<>>)
        ELSE IF LeaderBad(leader)
        THEN Decoded("LeaderError", "leader", leader, 0, <<>>, <<>>)
        ELSE IF ~ba.ok
        THEN Decoded("ValueError", "base", leader, 0, <<>>, <<>>)
        ELSE IF BaseAddressBad(base)
        THEN Decoded("BaseAddressError", "base", leader, base, <<>>, <<>>)
        ELSE IF BaseAddressTooLong(base, marc)
        THEN Decoded("BaseAddressLengthError", "base", leader, base, <<>>, <<>>)
        ELSE IF ~AsciiOk(region)
        THEN Decoded("UnicodeDecodeError", "directory", leader, base, <<>>, <<>>)
        ELSE IF DirectoryBad(region)
        THEN Decoded("DirectoryError", "directory", leader, base, region, <<>>)
        ELSE IF fs.kind # "ok"
        THEN Decoded(fs.kind, "fields", leader, base, region, <<>>)
        ELSE IF NoFields(Len(fs.fields))
        THEN Decoded("FieldsError", "fields", leader, base, region, <<>>)
        ELSE Decoded("Record", "done", leader, base, region, fs.fields)

\* Record.get_fields(*args): the fields returned, each named by its place in
\* self.fields (the Field objects themselves are returned, not copies).
TagListed(args, tag) == \E k \in 1..Len(args) : args[k] = tag
get_fields_first(fields, args) ==
    SelectSeq([i \in 1..Len(fields) |-> i],
              LAMBDA i : /\ Len(args) = 0 \/ TagListed(args, fields[i].tag)
                         /\ \A j \in 1..(i - 1) : fields[j].tag # fields[i].tag)
get_fields(fields, args) ==
    IF Len(args) = 0 THEN [i \in 1..Len(fields) |-> i]
    ELSE SelectSeq([i \in 1..Len(fields) |-> i],
                   LAMBDA i : TagListed(args, fields[i].tag))

\* -------------------------------------------------------- the file
\* file_handle.read(k) of the binary file main() opens, from cursor p of
\* contents s: the bytes returned and the cursor afterwards.  read(-1)
\* reads to the end; a size below -1 raises ValueError and reads nothing.
FileRead(s, p, k) ==
    IF k < -1 THEN [ok |-> FALSE, data |-> <<>>, pos |-> p]
    ELSE LET e == IF k = -1 THEN Len(s) ELSE Min(p + k, Len(s))
         IN  [ok |-> TRUE, data |-> SubSeq(s, p + 1, e), pos |-> e]

\* ----------------------------------------------------- wire encoding
\* n in decimal, zero-padded to w bytes.
RECURSIVE Dec(_, _)
Dec(n, w) == IF w = 0 THEN <<>> ELSE Dec(n \div 10, w - 1) \o <<48 + (n % 10)>>

\* Field bodies are given without their END_OF_FIELD terminator.
RECURSIVE EncDirectory(_, _)
EncDirectory(fs, off) ==
    IF fs = <<>> THEN <<>>
    ELSE fs[1].tag \o Dec(Len(fs[1].body) + 1, 4) \o Dec(off, 5)
         \o EncDirectory(Tail(fs), off + Len(fs[1].body) + 1)

RECURSIVE EncBodies(_)
EncBodies(fs) ==
    IF fs = <<>> THEN <<>>
    ELSE fs[1].body \o <<END_OF_FIELD>> \o EncBodies(Tail(fs))

\* A block in the wire format decode_marc reads: leader (record length,
\* l5 = positions 5-11, base address, l17 = positions 17-23), directory
\* (followed by pad, extra directory bytes), terminator, field bodies,
\* record terminator.
Encode(l5, l17, fs, pad) ==
    LET dir   == EncDirectory(fs, 0) \o pad
        body  == EncBodies(fs)
        base  == LEADER_LENGTH + Len(dir) + 1
        total == base + Len(body) + 1
    IN  Dec(total, 5) \o l5 \o Dec(base, 5) \o l17
        \o dir \o <<END_OF_FIELD>> \o body \o <<END_OF_RECORD>>

\* b with the bytes x written over it from 0-based offset at.
Patch(b, at, x) ==
    [i \in 1..Len(b) |-> IF i > at /\ i <= at + Len(x) THEN x[i - at] ELSE b[i]]

\* ------------------------------------------------------ the inputs
\* Leader positions 5-11 and 17-23: "nam a22", " a 4500", and the same with
\* other characters where Record.__init__ writes "22" and "4500".
L5 == <<110, 97, 109, 32, 97, 50, 50>>
L17 == <<32, 97, 32, 52, 53, 48, 48>>
L5x == <<110, 97, 109, 32, 97, 57, 57>>
L17x == <<32, 97, 32, 49, 50, 51, 52>>

\* 001 "12"; 245 "10" $a "Fo" $b "B"; DB "x"; 245 with a two-byte UTF-8
\* character in $a; 001 with a byte that is not UTF-8.
F001 == [tag |-> <<48, 48, 49>>, body |-> <<49, 50>>]
F245 == [tag |-> <<50, 52, 53>>, body |-> <<49, 48, 31, 97, 70, 111, 31, 98, 66>>]
FDB == [tag |-> <<68, 66, 32>>, body |-> <<120>>]
F245u == [tag |-> <<50, 52, 53>>, body |-> <<31, 97, 195, 169>>]
F001bad == [tag |-> <<48, 48, 49>>, body |-> <<255>>]


\* Tags around the control-field test: 009 and 010, "00a" (below "010" as
\* text, not a number), SYS.
F009 == [tag |-> <<48, 48, 57>>, body |-> <<120>>]
F010 == [tag |-> <<48, 49, 48>>, body |-> <<32, 32, 31, 97, 90>>]
F00a == [tag |-> <<48, 48, 97>>, body |-> <<97, 98>>]
FSYS == [tag |-> <<83, 89, 83>>, body |-> <<31, 97>>]

\* Data-field bodies: no indicators, $a "Foo" $b "Bar"; one indicator, an
\* empty chunk, $a "X" $a "Y" and $b with no value; three characters
\* before the first delimiter.
F245s == [tag |-> <<50, 52, 53>>, body |-> <<31, 97, 70, 111, 111, 31, 98, 66, 97, 114>>]
F650 == [tag |-> <<54, 53, 48>>, body |-> <<49, 31, 31, 97, 88, 31, 97, 89, 31, 98>>]
F100 == [tag |-> <<49, 48, 48>>, body |-> <<49, 50, 51, 31, 97, 88>>]

RecA == Encode(L5, L17, <<F001>>, <<>>)
RecB == Encode(L5, L17, <<F245, F001>>, <<>>)
RecC == Encode(L5, L17, <<F009, F010, F00a, FSYS>>, <<>>)
\* Records to query: a repeated subfield code next to a control field, and
\* a repeated tag.
RecE == Encode(L5, L17, <<F650, F001>>, <<>>)
RecF == Encode(L5, L17, <<F245, F245>>, <<>>)
RecD == Encode(L5, L17, <<F245s, F650, F100, F650>>, <<>>)

\* The 5-byte length prefix of b rewritten: below 5, not a number, padded
\* with a space, larger and smaller than the block.
PrefixVariants(b) ==
    { Patch(b, 0, x) : x \in { <<48, 48, 48, 48, 52>>, <<48, 48, 48, 48, 51>>,
                               <<48, 48, 48, 48, 120>>, <<48, 48, 48, 48, 53>>,
                               <<32>> \o Dec(Len(b), 4),
                               Dec(Len(b) + 6, 5), Dec(Len(b) - 3, 5) } }

\* Bytes of the leader rewritten: not ASCII, and other characters at the
\* positions Record.__init__ overwrites.
LeaderVariants(b) ==
    { Patch(b, 5, <<233>>), Patch(b, 23, <<233>>),
      Patch(Patch(b, 10, <<57, 57>>), 20, <<49, 50, 51, 52>>) }

\* The base address (bytes 12-16) rewritten, ba being the true one.
BaseVariants(b, ba) ==
    { Patch(b, 12, x) : x \in { <<48, 48, 48, 48, 48>>, <<45, 48, 48, 48, 49>>,
                                <<48, 48, 48, 48, 49>>, <<48, 48, 48, 50, 52>>,
                                <<48, 48, 48, 50, 53>>, <<57, 57, 57, 57, 57>>,
                                <<48, 48, 48, 51, 120>>, <<233, 48, 48, 51, 55>>,
                                Dec(Len(b), 5), Dec(Len(b) - 1, 5),
                                Dec(ba + 1, 5), Dec(ba + 12, 5) } }

\* Every base address that leaves the directory region [24, base - 1) empty.
EmptyDirectoryVariants(b) == { Patch(b, 12, Dec(k, 5)) : k \in 1..(LEADER_LENGTH + 1) }

\* Bytes of the first directory entry (at 24) rewritten: a tag byte that is
\* not ASCII, a length that is not a number, a length of 0, an offset past
\* the end of the block.
DirectoryVariants(b) ==
    { Patch(b, 24, <<233>>), Patch(b, 27, <<48, 48, 120, 51>>),
      Patch(b, 27, <<48, 48, 48, 48>>), Patch(b, 31, <<48, 48, 48, 57, 48>>) }

\* Blocks too short to hold a leader.
ShortBlocks ==
    { <<48, 48, 48, 48, 53>>,
      <<48, 48, 48, 49, 48, 97, 98, 99, 100, 101>>,
      <<48, 48, 48, 49, 48, 233, 98, 99, 100, 101>> }

BlockSet ==
    {RecA, RecB}
    \cup PrefixVariants(RecA) \cup LeaderVariants(RecA)
    \cup BaseVariants(RecA, 37) \cup BaseVariants(RecB, 49)
    \cup EmptyDirectoryVariants(RecA)
    \cup DirectoryVariants(RecA) \cup DirectoryVariants(RecB)
    \cup { Encode(L5, L17, <<F001>>, <<48>>), Encode(L5, L17, <<F001>>, <<233>>),
           Encode(L5, L17, <<>>, <<>>), Encode(L5x, L17x, <<F245, F001>>, <<>>),
           Encode(L5, L17, <<F001bad>>, <<>>), Encode(L5, L17, <<F245u>>, <<>>),
           Encode(L5, L17, <<FDB, F245, F245>>, <<>>) }
    \cup ShortBlocks
    \cup {RecC, RecD}

\* Well-formed blocks that may precede and follow the block under test.
FollowSet == {RecA, RecB}
MaxFollow == 1

RECURSIVE Flatten(_)
Flatten(bs) == IF bs = <<>> THEN <<>> ELSE bs[1] \o Flatten(Tail(bs))

FollowSeqs == UNION { [1..k -> FollowSet] : k \in 0..MaxFollow }

Streams ==
    { Flatten(l) \o b \o Flatten(t) :
        l \in FollowSeqs, b \in BlockSet,
        t \in { x \in FollowSeqs : Len(x) = 0 } }
    \cup
    { b \o Flatten(t) : b \in BlockSet, t \in FollowSeqs }

\* A file is a stream as written, a stream followed by a fragment shorter
\* than a length prefix, or a stream that ends Cuts bytes early.
Fragments == { <<48, 48>>, <<48, 48, 48, 52>> }
Cuts == {2, 9}
Files ==
    Streams
    \cup { s \o f : s \in Streams, f \in Fragments }
    \cup { SubSeq(s, 1, Len(s) - c) : s \in Streams, c \in Cuts }

\* The files whose Records are queried: a record alone, two records, a
\* record after a block that fails to decode, and a record followed by a
\* fragment, by a prefix that is not a number and by a prefix below 4.
QueryFiles ==
    { RecF, RecA \o RecE,
      <<48, 48, 48, 48, 53>> \o RecA,
      RecA \o <<48, 48, 48, 52>>,
      RecA \o Patch(RecA, 0, <<48, 48, 48, 48, 120>>),
      RecA \o Patch(RecA, 0, <<48, 48, 48, 48, 51>>) }

\* The arguments of the queries: tags and codes that occur once, twice and
\* not at all in those records.
T001 == <<48, 48, 49>>
T245 == <<50, 52, 53>>
T999 == <<57, 57, 57>>
QueryTags == {T001, T245, T999}
TagArgs == { <<>>, <<T245>>, <<T001, T245>>, <<T245, T245>>, <<T999>> }
QueryCodes == { <<97>>, <<98>>, <<122>> }
CodeArgs == { <<>>, <<(<<97>>)>>, <<(<<98>>), (<<97>>)>>, <<(<<122>>)>> }

\* ---------------------------------------------------------- the state
VARIABLES
    stream,              \* the bytes of the file behind file_handle
    pos,                 \* file_handle's read cursor
    handed,              \* the blocks passed to Record(...), in call order
    record,              \* the Record the latest successful __next__ returned
    outcome,             \* how the latest __next__ ended, with its locals
    field_pos,           \* the cursor __pos of each Field of record, -1 before
                         \* its first __iter__
    answer,              \* the latest query of record or of one of its fields
    iteration            \* the caller's loop over one Field of record

vars == <<stream, pos, handed, record, outcome, field_pos, answer, iteration>>

NoRecord == [leader |-> <<>>, fields |-> <<>>]

\* kind: "none" before the first call, then "StopIteration", "Record" or
\* the name of the exception raised; stage: the statement that ended the
\* call; start: the cursor when the call began.
Outcome(kind, stage, start, first5, marc, leader, base_address, directory) ==
    [kind |-> kind, stage |-> stage, start |-> start, first5 |-> first5,
     marc |-> marc, leader |-> leader, base_address |-> base_address,
     directory |-> directory]

\* A query and what it returned.  target is the place of the Field asked
\* (0 for the Record); fields are the Fields returned, by place; values the
\* subfield values returned; found the boolean returned, and for [...]
\* whether the result is not None; repeat says that the query before was
\* the same one.
Answer(op, target, args, fields, values, found, repeat) ==
    [op |-> op, target |-> target, args |-> args, fields |-> fields,
     values |-> values, found |-> found, repeat |-> repeat]
NoAnswer == Answer("none", 0, <<>>, <<>>, <<>>, FALSE, FALSE)

\* field 0: no loop has been started; yielded: the pairs __next__ has
\* returned to the loop; stopped: __next__ has raised StopIteration.
NoIteration == [field |-> 0, yielded |-> <<>>, stopped |-> FALSE]

Init ==
    /\ stream \in Files
    /\ pos = 0
    /\ handed = <<>>
    /\ record = NoRecord
    /\ outcome = Outcome("none", "none", 0, <<>>, <<>>, <<>>, 0, <<>>)
    /\ field_pos = <<>>
    /\ answer = NoAnswer
    /\ iteration = NoIteration

\* The size of the second read of __next__.
ReadSizeWhole(n) == n
ReadSizeOffByOne(n) == n - 4
ReadSize(n) == n - 5

PrefixShortBelow4(first5) == Len(first5) < 4
PrefixShort(first5) == Len(first5) < 5

\* MARCReader.__next__
MARCReader_next ==
    LET r1     == FileRead(stream, pos, 5)
        first5 == r1.data
        n      == PyInt(first5)
        r2     == FileRead(stream, r1.pos, ReadSize(n.val))
        marc   == first5 \o r2.data
    IN  \/ /\ first5 = <<>>
           /\ outcome' = Outcome("StopIteration", "prefix", pos, first5, <<>>, <<>>, 0, <<>>)
           /\ pos' = r1.pos
           /\ UNCHANGED <<stream, handed, record, field_pos, answer, iteration>>
        \/ /\ first5 # <<>> /\ PrefixShort(first5)
           /\ outcome' = Outcome("RecordLengthError", "prefix", pos, first5, <<>>, <<>>, 0, <<>>)
           /\ pos' = r1.pos
           /\ UNCHANGED <<stream, handed, record, field_pos, answer, iteration>>
        \/ /\ first5 # <<>> /\ ~PrefixShort(first5) /\ ~n.ok
           /\ outcome' = Outcome("ValueError", "prefix", pos, first5, <<>>, <<>>, 0, <<>>)
           /\ pos' = r1.pos
           /\ UNCHANGED <<stream, handed, record, field_pos, answer, iteration>>
        \/ /\ first5 # <<>> /\ ~PrefixShort(first5) /\ n.ok /\ ~r2.ok
           /\ outcome' = Outcome("ValueError", "read", pos, first5, <<>>, <<>>, 0, <<>>)
           /\ pos' = r2.pos
           /\ UNCHANGED <<stream, handed, record, field_pos, answer, iteration>>
        \/ \E dec \in {DecodeMarc(marc)} :
           /\ first5 # <<>> /\ ~PrefixShort(first5) /\ n.ok /\ r2.ok
           /\ dec.kind # "Record"
           /\ outcome' = Outcome(dec.kind, dec.stage, pos, first5, marc,
                                 dec.leader, dec.base_address, dec.directory)
           /\ pos' = r2.pos
           /\ handed' = Append(handed, marc)
           /\ UNCHANGED <<stream, record, field_pos, answer, iteration>>
        \/ \E dec \in {DecodeMarc(marc)} :
           /\ first5 # <<>> /\ ~PrefixShort(first5) /\ n.ok /\ r2.ok
           /\ dec.kind = "Record"
           /\ outcome' = Outcome("Record", "done", pos, first5, marc,
                                 dec.leader, dec.base_address, dec.directory)
           /\ pos' = r2.pos
           /\ handed' = Append(handed, marc)
           /\ record' = [leader |-> dec.leader, fields |-> dec.fields]
           /\ field_pos' = [i \in 1..Len(dec.fields) |-> -1]
           /\ answer' = NoAnswer
           /\ iteration' = NoIteration
           /\ UNCHANGED stream

Next == MARCReader_next

Spec == Init /\ [][Next]_vars

\* ------------------------------------------- queries of the Record
\* The query (op, target, args) is the one answered last.
Repeats(op, target, args) ==
    answer.op = op /\ answer.target = target /\ answer.args = args

\* record.get_fields(*args)
Record_get_fields ==
    /\ record # NoRecord
    /\ \E args \in TagArgs :
         answer' = Answer("get_fields", 0, args, get_fields(record.fields, args),
                          <<>>, FALSE, Repeats("get_fields", 0, args))
    /\ UNCHANGED <<stream, pos, handed, record, outcome, field_pos, iteration>>

\* tag in record
Record_contains ==
    /\ record # NoRecord
    /\ \E tag \in QueryTags :
         LET fields == get_fields(record.fields, <<tag>>)
         IN  answer' = Answer("Record.__contains__", 0, <<tag>>, <<>>, <<>>,
                              Len(fields) > 0,
                              Repeats("Record.__contains__", 0, <<tag>>))
    /\ UNCHANGED <<stream, pos, handed, record, outcome, field_pos, iteration>>

\* record[tag]
Record_getitem ==
    /\ record # NoRecord
    /\ \E tag \in QueryTags :
         LET fields == get_fields(record.fields, <<tag>>)
         IN  answer' = Answer("Record.__getitem__", 0, <<tag>>,
                              SubSeq(fields, 1, Min(1, Len(fields))), <<>>,
                              Len(fields) > 0,
                              Repeats("Record.__getitem__", 0, <<tag>>))
    /\ UNCHANGED <<stream, pos, handed, record, outcome, field_pos, iteration>>

\* field.get_subfields(*codes), field being record.fields[i]
Field_get_subfields ==
    /\ \E i \in 1..Len(record.fields), codes \in CodeArgs :
         LET r == get_subfields(record.fields[i], field_pos[i], codes)
         IN  /\ answer' = Answer("get_subfields", i, codes, <<>>, r.values, FALSE,
                                 Repeats("get_subfields", i, codes))
             /\ field_pos' = [field_pos EXCEPT ![i] = r.position]
    /\ UNCHANGED <<stream, pos, handed, record, outcome, iteration>>

\* code in field
Field_contains ==
    /\ \E i \in 1..Len(record.fields), code \in QueryCodes :
         LET r == get_subfields(record.fields[i], field_pos[i], <<code>>)
         IN  /\ answer' = Answer("Field.__contains__", i, <<code>>, <<>>, <<>>,
                                 Len(r.values) > 0,
                                 Repeats("Field.__contains__", i, <<code>>))
             /\ field_pos' = [field_pos EXCEPT ![i] = r.position]
    /\ UNCHANGED <<stream, pos, handed, record, outcome, iteration>>

\* field[code]
Field_getitem ==
    /\ \E i \in 1..Len(record.fields), code \in QueryCodes :
         LET r == get_subfields(record.fields[i], field_pos[i], <<code>>)
         IN  /\ answer' = Answer("Field.__getitem__", i, <<code>>, <<>>,
                                 SubSeq(r.values, 1, Min(1, Len(r.values))),
                                 Len(r.values) > 0,
                                 Repeats("Field.__getitem__", i, <<code>>))
             /\ field_pos' = [field_pos EXCEPT ![i] = r.position]
    /\ UNCHANGED <<stream, pos, handed, record, outcome, iteration>>

\* iter(field) at the start of a loop of the caller over record.fields[i]
Field_iter ==
    /\ \E i \in 1..Len(record.fields) :
         /\ field_pos' = [field_pos EXCEPT ![i] = FieldIter(field_pos[i])]
         /\ iteration' = [field |-> i, yielded |-> <<>>, stopped |-> FALSE]
    /\ UNCHANGED <<stream, pos, handed, record, outcome, answer>>

\* next(field), one step of that loop
Field_next ==
    /\ iteration.field # 0
    /\ ~iteration.stopped
    /\ LET i == iteration.field
           n == FieldNext(record.fields[i], field_pos[i])
       IN  /\ field_pos' = [field_pos EXCEPT ![i] = n.position]
           /\ iteration' = [iteration EXCEPT
                              !.yielded = IF n.stop THEN @ ELSE Append(@, n.pair),
                              !.stopped = n.stop]
    /\ UNCHANGED <<stream, pos, handed, record, outcome, answer>>

\* The reader and the queries of the Record it returned last, on the files
\* in QueryFiles.
QueryInit ==
    /\ stream \in QueryFiles
    /\ pos = 0
    /\ handed = <<>>
    /\ record = NoRecord
    /\ outcome = Outcome("none", "none", 0, <<>>, <<>>, <<>>, 0, <<>>)
    /\ field_pos = <<>>
    /\ answer = NoAnswer
    /\ iteration = NoIteration

QueryNext ==
    \/ MARCReader_next
    \/ Record_get_fields
    \/ Record_contains
    \/ Record_getitem
    \/ Field_get_subfields
    \/ Field_contains
    \/ Field_getitem
    \/ Field_iter
    \/ Field_next

QuerySpec == QueryInit /\ [][QueryNext]_vars

\* ================================================================
\* Properties
\* ================================================================
\* Framing as the wire format defines it, without the reader: a stream is
\* framed from p when it ends at p or a block that starts with five decimal
\* digits stating its own size n >= 5 lies at p and the rest is framed.
IsPrefix(x) == Len(x) = 5 /\ \A i \in 1..5 : IsDigit(x[i])
Decimal(x) == DigitsValue(x, 0)
PrefixAt(s, p) == SubSeq(s, p + 1, Min(p + 5, Len(s)))
FramedAt(s, p) ==
    /\ IsPrefix(PrefixAt(s, p))
    /\ Decimal(PrefixAt(s, p)) >= 5
    /\ p + Decimal(PrefixAt(s, p)) <= Len(s)
BlockAt(s, p) == SubSeq(s, p + 1, p + Decimal(PrefixAt(s, p)))

RECURSIVE IsFramed(_, _)
IsFramed(s, p) ==
    IF p >= Len(s) THEN p = Len(s)
    ELSE FramedAt(s, p) /\ IsFramed(s, p + Decimal(PrefixAt(s, p)))

\* The first k blocks of a stream framed from p.
RECURSIVE FramesFrom(_, _, _, _)
FramesFrom(s, p, k, acc) ==
    IF k = 0 \/ p >= Len(s) THEN acc
    ELSE FramesFrom(s, p + Decimal(PrefixAt(s, p)), k - 1, Append(acc, BlockAt(s, p)))

\* The latest call passed a block to Record(...).
Handed == outcome.stage \in {"leader", "base", "directory", "fields", "done"}
\* ... and the block is a whole block of the stream: it starts with five
\* digits that state its own length.
WholeBlock == Handed /\ FramedAt(stream, outcome.start)
\* ... and Record(...) raised.
DecodeFailed == Handed /\ outcome.kind # "Record"
\* The base address as written in bytes 12-16 of the block.
WrittenBase == PyInt(PySlice(outcome.marc, 12, 17))
\* decode_marc got past the leader check.
PastLeader == outcome.stage \in {"base", "directory", "fields", "done"}
\* decode_marc got past the base address checks.
PastBase == outcome.stage \in {"directory", "fields", "done"}

\* C1: on a framed stream the blocks handed to the decoder are the 1st, 2nd,
\* 3rd ... block of the stream in order, the cursor stands right after the
\* last of them, every call that hands a block reads its 5-byte prefix and
\* moves the cursor by exactly the length n the prefix states, and the cursor
\* never moves backwards.
C1_BlocksInOrder ==
    /\ [](IsFramed(stream, 0) =>
            /\ handed = FramesFrom(stream, 0, Len(handed), <<>>)
            /\ pos = Len(Flatten(handed)))
    /\ [][IsFramed(stream, 0) =>
            /\ pos' >= pos
            /\ (handed' # handed =>
                  /\ outcome'.first5 = PrefixAt(stream, pos)
                  /\ pos' = pos + Decimal(PrefixAt(stream, pos))
                  /\ handed' = Append(handed, BlockAt(stream, pos)))]_vars
C1_Witness ==
    /\ IsFramed(stream, 0)
    /\ Len(handed) = 2
    /\ handed[1] # handed[2]
    /\ pos = Len(stream)

\* C2: a call that finds no byte left ends the iteration with StopIteration;
\* a call that finds 1 to 4 bytes left raises RecordLengthError; neither
\* passes a block to Record(...) nor returns a Record.
C2_EndOfStream ==
    outcome.kind # "none" =>
        LET left == Len(stream) - outcome.start
        IN  /\ left = 0 => outcome.kind = "StopIteration"
            /\ left \in 1..4 => outcome.kind = "RecordLengthError"
            /\ left < 5 => ~Handed /\ outcome.marc = <<>> /\ outcome.kind # "Record"
            /\ outcome.kind \in {"StopIteration", "RecordLengthError"} => left < 5
C2_Witness ==
    /\ outcome.kind = "RecordLengthError"
    /\ Len(stream) - outcome.start = 4
    /\ Len(handed) >= 1

\* C3: when Record(...) raises for a block whose prefix states the block's
\* true length n, the cursor stands at the first byte after the block, and
\* the next call starts there: it ends the iteration if nothing follows and,
\* if a framed block follows, hands exactly that block to the decoder and
\* ends as decode_marc ends on that block alone.
FailedAccurate == DecodeFailed /\ FramedAt(stream, outcome.start)
C3_FailureIsLocal ==
    /\ [](FailedAccurate =>
            /\ outcome.marc = BlockAt(stream, outcome.start)
            /\ pos = outcome.start + Decimal(outcome.first5))
    /\ [][(FailedAccurate /\ outcome' # outcome) =>
            LET q == outcome.start + Decimal(outcome.first5)
            IN  /\ outcome'.start = q
                /\ q = Len(stream) => outcome'.kind = "StopIteration"
                /\ FramedAt(stream, q) =>
                     /\ outcome'.marc = BlockAt(stream, q)
                     /\ outcome'.kind = DecodeMarc(BlockAt(stream, q)).kind
                     /\ pos' = q + Len(BlockAt(stream, q))]_vars
C3_Witness ==
    /\ Len(handed) = 2
    /\ outcome.kind = "Record"
    /\ outcome.start = Len(handed[1])
    /\ IsPrefix(SubSeq(handed[1], 1, 5))
    /\ Decimal(SubSeq(handed[1], 1, 5)) = Len(handed[1])
    /\ DecodeMarc(handed[1]).kind = "DirectoryError"

\* C4 (as claimed): every block a Record is returned for has at least 5
\* bytes and exactly as many bytes as its first 5 bytes state, so a block
\* that the end of the file cut short never yields a Record.
C4_BlockHasDeclaredLength ==
    outcome.kind = "Record" =>
        /\ Len(outcome.marc) >= 5
        /\ PyInt(outcome.first5).val = Len(outcome.marc)

\* The leader Record.__init__ leaves when no leader is passed:
\* 10 spaces, "22", 8 spaces, "4500".
BlankLeader ==
    <<32, 32, 32, 32, 32, 32, 32, 32, 32, 32, 50, 50,
      32, 32, 32, 32, 32, 32, 32, 32, 52, 53, 48, 48>>

C6_LeaderError ==
    WholeBlock =>
        LET raw == PySlice(outcome.marc, 0, 24)
        IN  (~AsciiOk(raw) \/ Len(raw) # 24) => outcome.kind = "LeaderError"

\* C7: when decode_marc gets past the leader check and bytes 12-16 are a
\* number b, it raises BaseAddressError exactly when b <= 0 and
\* BaseAddressLengthError exactly when 0 < b and b >= len(block); a returned
\* Record has base_address = b and 0 < b < len(block).
C7_BaseAddress ==
    (PastLeader /\ WrittenBase.ok) =>
        LET b == WrittenBase.val
        IN  /\ (b <= 0) <=> (outcome.kind = "BaseAddressError")
            /\ (b > 0 /\ b >= Len(outcome.marc)) <=> (outcome.kind = "BaseAddressLengthError")
            /\ PastBase => /\ outcome.base_address = b
                           /\ 0 < b /\ b < Len(outcome.marc)
            /\ outcome.kind = "Record" => PastBase
C7_Witness ==
    /\ outcome.kind = "BaseAddressLengthError"
    /\ WrittenBase.ok
    /\ WrittenBase.val = Len(outcome.marc)

\* C8 (as claimed): when decode_marc gets past the base address checks of a
\* whole block and the directory region, bytes [24, base_address - 1), has a
\* length that is not a multiple of 12, it raises DirectoryError; a returned
\* Record has a directory that is that region and whose length is a multiple
\* of 12.
C8_DirectoryMultipleOf12 ==
    (PastBase /\ WholeBlock) =>
        LET region == PySlice(outcome.marc, 24, WrittenBase.val - 1)
        IN  /\ Len(region) % 12 # 0 => outcome.kind = "DirectoryError"
            /\ outcome.kind = "Record" =>
                 outcome.directory = region /\ Len(outcome.directory) % 12 = 0

\* C9: a returned Record has at least one field, and a block that gets past
\* the leader check with a base address b written in bytes 12-16,
\* 1 <= b <= 25 and b < len(block), so that its directory region is empty,
\* raises FieldsError.
C9_AtLeastOneField ==
    /\ outcome.kind = "Record" => Len(record.fields) >= 1
    /\ (PastLeader /\ WrittenBase.ok /\ WrittenBase.val \in 1..25
        /\ WrittenBase.val < Len(outcome.marc)) =>
           /\ PySlice(outcome.marc, 24, WrittenBase.val - 1) = <<>>
           /\ outcome.kind = "FieldsError"
C9_Witness ==
    /\ outcome.kind = "FieldsError"
    /\ WrittenBase.val = 13
    /\ Len(outcome.marc) > 25

\* C10 (as claimed): a call that fails at the length prefix, at the leader,
\* at the base address or at the directory region raises one of the six
\* named exceptions.
NamedErrors ==
    {"RecordLengthError", "LeaderError", "BaseAddressError",
     "BaseAddressLengthError", "DirectoryError", "FieldsError"}
C10_NamedErrorsOnly ==
    (/\ outcome.kind \notin {"none", "StopIteration", "Record"}
     /\ outcome.stage \in {"prefix", "read", "leader", "base", "directory"}) =>
        outcome.kind \in NamedErrors

\* The i-th 12-character entry of a directory as decode_marc reads it:
\* tag, length of the field and its offset from the base address.
EntryAt(directory, i) ==
    SubSeq(directory, DIRECTORY_ENTRY_LENGTH * (i - 1) + 1, DIRECTORY_ENTRY_LENGTH * i)
EntryTag(directory, i) == SubSeq(EntryAt(directory, i), 1, 3)
EntryLength(directory, i) == PyInt(SubSeq(EntryAt(directory, i), 4, 7)).val
EntryOffset(directory, i) == PyInt(SubSeq(EntryAt(directory, i), 8, 12)).val
EntryCount(directory) == Len(directory) \div DIRECTORY_ENTRY_LENGTH

\* C11 (as claimed): for every Record returned for a whole block and every
\* entry of its directory, the byte range of the field,
\* [base + offset, base + offset + length - 1), lies inside
\* [base, len(block)): an entry whose range reaches past the end of the
\* block never yields a Record.
C11_FieldRangeInsideBlock ==
    (outcome.kind = "Record" /\ WholeBlock) =>
        \A i \in 1..EntryCount(outcome.directory) :
            LET start == outcome.base_address + EntryOffset(outcome.directory, i)
                end   == start + EntryLength(outcome.directory, i) - 1
            IN  /\ outcome.base_address <= start
                /\ end <= Len(outcome.marc)

\* C12 (as claimed): a block of exactly 5 bytes, "00005", is never decoded
\* into a Record, and the call that reads it raises DirectoryError or
\* BaseAddressError.
FiveByteBlock == <<48, 48, 48, 48, 53>>
C12_FiveBytesDirectoryOrBase ==
    (Handed /\ outcome.marc = FiveByteBlock) =>
        outcome.kind \in {"DirectoryError", "BaseAddressError"}

\* C12 (amended): a block of exactly 5 bytes is never decoded into a Record:
\* its leader has 5 characters, and the call that reads it raises
\* LeaderError at the leader check, before the base address and the
\* directory are looked at.
C12_FiveBytesLeaderError ==
    (Handed /\ Len(outcome.marc) = 5) =>
        /\ outcome.kind = "LeaderError"
        /\ outcome.stage = "leader"
C12_Witness ==
    /\ outcome.marc = FiveByteBlock
    /\ outcome.kind = "LeaderError"
    /\ WholeBlock
    /\ Len(handed) = 2

\* The bytes decode_marc slices for the i-th directory entry of the block
\* of the latest call.
EntryBody(i) ==
    EntryData(outcome.marc, outcome.base_address,
              EntryOffset(outcome.directory, i), EntryLength(outcome.directory, i))

\* A tag is a control tag by its value: three digits that read as a number
\* below 10, or one of the two named tags "DB " and "SYS".
ControlByValue(tag) ==
    \/ /\ Len(tag) = 3
       /\ \A k \in 1..3 : tag[k] \in 48..57
       /\ 100 * (tag[1] - 48) + 10 * (tag[2] - 48) + (tag[3] - 48) < 10
    \/ tag \in { <<68, 66, 32>>, <<83, 89, 83>> }

\* C14: every field of a returned Record carries the tag of its directory
\* entry and is a control field exactly when that tag is a control tag by
\* value, a data field otherwise; the branch decode_marc took (a control
\* field holds the decoded bytes of its entry as data, a data field holds two
\* indicators), the attributes Field.__init__ stored and is_control_field()
\* agree.
C14_ControlOrData ==
    outcome.kind = "Record" =>
        /\ Len(record.fields) = EntryCount(outcome.directory)
        /\ \A i \in 1..Len(record.fields) :
             LET f   == record.fields[i]
                 ctl == ControlByValue(EntryTag(outcome.directory, i))
             IN  /\ f.tag = EntryTag(outcome.directory, i)
                 /\ is_control_field(f) <=> ctl
                 /\ ctl => /\ f.attrs = {"data"}
                           /\ f.data = Utf8Decode(EntryBody(i)).chars
                 /\ ~ctl => /\ f.attrs = {"indicators", "subfields"}
                            /\ Len(f.indicators) = 2
C14_Witness ==
    /\ outcome.kind = "Record"
    /\ Len(record.fields) = 4
    /\ record.fields[1].tag = <<48, 48, 57>> /\ is_control_field(record.fields[1])
    /\ record.fields[2].tag = <<48, 49, 48>> /\ ~is_control_field(record.fields[2])
    /\ record.fields[3].tag = <<48, 48, 97>> /\ ~is_control_field(record.fields[3])
    /\ record.fields[4].tag = <<83, 89, 83>> /\ is_control_field(record.fields[4])

\* The chunks of a field body: the runs of bytes between its delimiters
\* (0x1F), chunk 0 before the first delimiter, chunk k after the k-th.
Delimiters(body) == { i \in 1..Len(body) : body[i] = 31 }
NthDelimiter(body, k) ==
    CHOOSE i \in Delimiters(body) :
        Cardinality({ j \in Delimiters(body) : j < i }) = k - 1
Chunk(body, k) ==
    LET n    == Cardinality(Delimiters(body))
        from == IF k = 0 THEN 1 ELSE NthDelimiter(body, k) + 1
        to   == IF k = n THEN Len(body) ELSE NthDelimiter(body, k + 1) - 1
    IN  SubSeq(body, from, to)
\* The non-empty chunks after the first delimiter, in order.
LaterChunks(body) ==
    SelectSeq([k \in 1..Cardinality(Delimiters(body)) |-> Chunk(body, k)],
              LAMBDA c : c # <<>>)
\* The j-th (code, value) pair of a flat subfield list.
PairAt(subfields, j) == <<subfields[2 * j - 1], subfields[2 * j]>>

\* C15: the body of every data field of a returned Record is split on 0x1F:
\* its two indicators are the first two characters of the chunk before the
\* first delimiter, padded on the right with spaces and cut after two; its
\* subfields are one (code, value) pair per non-empty later chunk, the code
\* being the chunk's first byte and the value the rest, in the order of the
\* body, repeated codes kept and empty chunks skipped; the flat list has
\* even length.
C15_DataFieldBody ==
    outcome.kind = "Record" =>
        \A i \in 1..Len(record.fields) :
            LET f      == record.fields[i]
                body   == EntryBody(i)
                first  == Chunk(body, 0)
                chunks == LaterChunks(body)
            IN  ~is_control_field(f) =>
                  /\ f.indicators = << IF Len(first) >= 1 THEN first[1] ELSE 32,
                                       IF Len(first) >= 2 THEN first[2] ELSE 32 >>
                  /\ Len(f.subfields) % 2 = 0
                  /\ Len(f.subfields) = 2 * Len(chunks)
                  /\ \A j \in 1..Len(chunks) :
                       PairAt(f.subfields, j) =
                           << <<chunks[j][1]>>, Utf8Decode(Tail(chunks[j])).chars >>
C15_Witness ==
    /\ outcome.kind = "Record"
    /\ Len(record.fields) = 4
    /\ record.fields[1].indicators = <<32, 32>>
    /\ record.fields[1].subfields = << <<97>>, <<70, 111, 111>>, <<98>>, <<66, 97, 114>> >>
    /\ record.fields[2].indicators = <<49, 32>>
    /\ record.fields[2].subfields = << <<97>>, <<88>>, <<97>>, <<89>>, <<98>>, <<>> >>
    /\ record.fields[3].indicators = <<49, 50>>

\* The tags and codes passed to a query, as a set.
Listed(args) == { args[k] : k \in 1..Len(args) }
\* A sequence of places in strictly increasing order.
Increasing(places) ==
    \A k \in 1..(Len(places) - 1) : places[k] < places[k + 1]

\* C13: get_fields() with no argument returns the fields of the Record, one
\* per directory entry, in directory order, the i-th carrying the tag of the
\* i-th entry, duplicate tags included; get_fields(t1, ..., tk) returns the
\* fields whose tag is one of t1..tk, each once, in the same order.
C13_GetFields ==
    answer.op = "get_fields" =>
        /\ Increasing(answer.fields)
        /\ Listed(answer.fields) =
             { i \in 1..Len(record.fields) :
                 answer.args = <<>> \/ record.fields[i].tag \in Listed(answer.args) }
        /\ (answer.args = <<>> /\ outcome.kind = "Record") =>
             /\ Len(answer.fields) = EntryCount(outcome.directory)
             /\ \A i \in 1..Len(answer.fields) :
                  /\ answer.fields[i] = i
                  /\ record.fields[i].tag = EntryTag(outcome.directory, i)
C13_Witness ==
    /\ answer.op = "get_fields"
    /\ answer.args = <<T245>>
    /\ answer.fields = <<1, 2>>
    /\ EntryTag(outcome.directory, 1) = EntryTag(outcome.directory, 2)

\* The (code, value) pairs of a field in the order of its body; a control
\* field has none.
PairsOf(field) ==
    IF ControlByValue(field.tag) THEN <<>>
    ELSE [j \in 1..(Len(field.subfields) \div 2) |-> PairAt(field.subfields, j)]

\* C16: get_subfields() with no argument returns the value of every subfield
\* of the field in order, duplicates included; get_subfields(c1, ..., ck)
\* returns the values of the subfields whose code is one of c1..ck, in the
\* same order; on a control field both return the empty list.
C16_GetSubfields ==
    answer.op = "get_subfields" =>
        LET field == record.fields[answer.target]
            chosen == SelectSeq(PairsOf(field),
                          LAMBDA pair : answer.args = <<>> \/ pair[1] \in Listed(answer.args))
        IN  /\ answer.values = [k \in 1..Len(chosen) |-> chosen[k][2]]
            /\ ControlByValue(field.tag) => answer.values = <<>>
C16_Witness ==
    /\ answer.op = "get_subfields"
    /\ answer.args = << <<97>> >>
    /\ answer.values = << <<88>>, <<89>> >>
    /\ ~is_control_field(record.fields[answer.target])

\* What a query returns on a Record as decode_marc built it, before any
\* query or loop has touched its fields.
FirstAnswer(op, target, args) ==
    LET fields == get_fields(record.fields, args)
        values == IF target = 0 THEN <<>>
                  ELSE get_subfields(record.fields[target], -1, args).values
    IN  [fields |-> IF op = "get_fields" THEN fields
                    ELSE IF op = "Record.__getitem__"
                    THEN SubSeq(fields, 1, Min(1, Len(fields))) ELSE <<>>,
         values |-> IF op = "get_subfields" THEN values
                    ELSE IF op = "Field.__getitem__"
                    THEN SubSeq(values, 1, Min(1, Len(values))) ELSE <<>>,
         found  |-> IF op \in {"Record.__contains__", "Record.__getitem__"}
                    THEN Len(fields) > 0
                    ELSE IF op \in {"Field.__contains__", "Field.__getitem__"}
                    THEN Len(values) > 0 ELSE FALSE]

\* C17: the queries are idempotent and read-only: whatever queries and loop
\* steps came before, a query returns what it returns on the Record as
\* decoded, so a repeated query returns what its first call returned; no
\* query changes the Record's fields, which stay the fields decode_marc
\* built (tag, data, indicators and subfields of each); the Record changes
\* only when the reader returns the next one.
C17_QueriesReadOnly ==
    /\ [](outcome.kind = "Record" => record.fields = DecodeMarc(outcome.marc).fields)
    /\ [][record' # record => handed' # handed]_vars
    /\ [][(answer' # answer /\ answer'.op # "none") =>
            LET first == FirstAnswer(answer'.op, answer'.target, answer'.args)
            IN  /\ record' = record
                /\ answer'.fields = first.fields
                /\ answer'.values = first.values
                /\ answer'.found = first.found
                /\ answer'.repeat =>
                     /\ answer'.fields = answer.fields
                     /\ answer'.values = answer.values
                     /\ answer'.found = answer.found]_vars
C17_Witness ==
    /\ answer.op = "get_subfields"
    /\ answer.repeat
    /\ answer.values = << <<88>>, <<89>> >>
    /\ iteration.field = answer.target
    /\ Len(iteration.yielded) = 1

\* C18 (as claimed): a loop over the subfields of a field is not disturbed
\* by queries of that field made between two of its steps: the pairs it has
\* been given are the first pairs of the field in order, and once it has
\* been given a pair it stops only after it has been given all of them.
C18_IterationUndisturbed ==
    iteration.field # 0 =>
        LET all == PairsOf(record.fields[iteration.field])
        IN  /\ Len(iteration.yielded) <= Len(all)
            /\ iteration.yielded = SubSeq(all, 1, Len(iteration.yielded))
            /\ (iteration.stopped /\ Len(iteration.yielded) >= 1) =>
                  iteration.yielded = all

====
